---- MODULE Spec2Model ----
\* A model of the hetzner driver of docker machine (drivers/hetzner/hetzner.go):
\* the driver's fields, its configuration, its getters, its lifecycle stubs and
\* the Create sequence with its three POSTs against the Robot webservice.
EXTENDS Integers, Sequences, FiniteSets, TLC

\* ---------------------------------------------------------------- bounds ---

\* How many times Create may be called in one behaviour.
MaxCreates == 2

\* The inputs the environment may supply.
MachineNames == {"box1", "box2"}
IPs          == {"", "1.2.3.4"}
Logins       == {"", "robot"}
Passwords    == {"", "secret"}
PubKeys      == {"ssh-rsa AAAA"}

\* ------------------------------------------------------------- constants ---

StatusOK      == 200
StatusCreated == 201

\* Status codes the remote API may answer with: the two accepted ones, another
\* 2xx and a server error.
Statuses == {StatusOK, StatusCreated, 204, 500}

\* The nil error.
Nil == "<nil>"

ErrNotImplemented == "not yet implemented"
ErrIPNotSet       == "IP address is not set"
ErrKeyGen         == "ssh-keygen: exit status 1"
ErrReadFile       == "open id_rsa.pub: no such file or directory"
ErrReadAll        == "unexpected EOF"
ErrSyntax         == "invalid character '<' looking for beginning of value"
ErrUnmarshalType  == "json: cannot unmarshal string into Go value of type int"

\* The bodies a response may carry, as what a JSON decoder sees in them:
\* whether the text is valid JSON, the value at key.fingerprint ("" when the
\* field is absent) and whether every field has the type of the Key struct.
Bodies ==
  { [valid |-> TRUE,  fingerprint |-> "AA:BB", typeOk |-> TRUE],
    [valid |-> TRUE,  fingerprint |-> "",      typeOk |-> TRUE],
    [valid |-> TRUE,  fingerprint |-> "AA:BB", typeOk |-> FALSE],
    [valid |-> FALSE, fingerprint |-> "AA:BB", typeOk |-> TRUE] }

\* The body of the responses whose body Create never reads.
EmptyBody == [valid |-> FALSE, fingerprint |-> "", typeOk |-> TRUE]

\* What http.PostForm can come back with: no response and an error, a response
\* whose body is already closed and an error (the redirect policy failed), or a
\* response.
Outcomes(bodies) ==
  { [kind |-> "transport", status |-> 0, body |-> EmptyBody],
    [kind |-> "redirect", status |-> 302, body |-> EmptyBody] }
  \cup [kind : {"response"}, status : Statuses, body : bodies]

\* ----------------------------------------------------------------- state ---

VARIABLES
  MachineName,  \* BaseDriver.MachineName
  IPAddress,    \* BaseDriver.IPAddress
  Login,        \* Driver.Login
  Password,     \* Driver.Password
  pc,           \* where the running Create stands; "idle" when none runs
  calls,        \* the robotApiCall calls of the latest Create: request, response, error
  outcomes,     \* how the local steps of the latest Create ended
  publicKey,    \* createKeyPair's publicKey
  fingerprint,  \* Create's fingerprint
  creates,      \* how many times Create was called
  ret           \* the operation that returned last, its arguments and its results

vars == <<MachineName, IPAddress, Login, Password, pc, calls, outcomes,
          publicKey, fingerprint, creates, ret>>

config == <<MachineName, IPAddress, Login, Password>>

NoOutcomes == [keygen |-> "none", readfile |-> "none", readall |-> "none"]

Result(op, args, val, err) == [op |-> op, args |-> args, val |-> val, err |-> err]

\* NewDriver(machineName, ...): only the machine name is set.
Init ==
  /\ MachineName \in MachineNames
  /\ IPAddress = ""
  /\ Login = ""
  /\ Password = ""
  /\ pc = "idle"
  /\ calls = <<>>
  /\ outcomes = NoOutcomes
  /\ publicKey = ""
  /\ fingerprint = ""
  /\ creates = 0
  /\ ret = Result("NewDriver", <<>>, "", Nil)

\* ------------------------------------------------------- pure functions ---

NilResp == [present |-> FALSE, StatusCode |-> 0, Body |-> EmptyBody, closed |-> TRUE]

\* http.PostForm(url, v), by its documented contract.
PostForm(url, outcome) ==
  CASE outcome.kind = "transport" ->
         <<NilResp, "Post " \o url \o ": connection refused">>
    [] outcome.kind = "redirect" ->
         <<[present |-> TRUE, StatusCode |-> outcome.status, Body |-> outcome.body,
            closed |-> TRUE],
           "Post " \o url \o ": stopped after 10 redirects">>
    [] OTHER ->
         <<[present |-> TRUE, StatusCode |-> outcome.status, Body |-> outcome.body,
            closed |-> FALSE],
           Nil>>

RobotURL(login, password, path) ==
  "https://" \o login \o ":" \o password \o "@robot-ws.your-server.de" \o path

StatusAcceptedAny2xx(code) == code \in 200..299

\* The statuses robotApiCall takes for success.
StatusAccepted(code) == code = StatusOK \/ code = StatusCreated

\* fmt.Errorf("%s", resp); the response prints with its status, and the model
\* adds the URL of its request to tell the responses apart.
ResponseError(url, resp) == "response " \o ToString(resp.StatusCode) \o " to " \o url

\* robotApiCall(path, v): the response and the error it returns.
robotApiCall(login, password, path, outcome) ==
  LET url == RobotURL(login, password, path)
      r   == PostForm(url, outcome)
  IN  IF r[2] # Nil THEN r
      ELSE IF ~StatusAccepted(r[1].StatusCode) THEN <<r[1], ResponseError(url, r[1])>>
      ELSE <<r[1], Nil>>

\* json.Unmarshal(contents, &unmarshalledResponse) and the fingerprint read
\* from the struct afterwards: a syntax error leaves the struct untouched, a
\* type error is reported after the other fields are filled in.
Unmarshal(body) ==
  IF ~body.valid THEN <<"", ErrSyntax>>
  ELSE IF ~body.typeOk THEN <<body.fingerprint, ErrUnmarshalType>>
  ELSE <<body.fingerprint, Nil>>

KeyForm(name, data) == {<<"name", name>>, <<"data", data>>}

BootFormEmptyKey(fp) ==
  {<<"dist", "Ubuntu 14.04.2 LTS minimal">>, <<"arch", "64">>, <<"lang", "en">>,
   <<"authorized_key", "">>}

\* The form of the OS-install request.
BootForm(fp) ==
  {<<"dist", "Ubuntu 14.04.2 LTS minimal">>, <<"arch", "64">>, <<"lang", "en">>,
   <<"authorized_key", fp>>}

ResetForm == {<<"type", "hw">>}

KeyPath == "/key"
BootPath(ip) == "/boot/" \o ip \o "/linux"
ResetPath(ip) == "/reset/" \o ip

GetIP(ip) == IF ip = "" THEN <<"", ErrIPNotSet>> ELSE <<ip, Nil>>

GetURL(ip) ==
  LET r == GetIP(ip)
  IN  IF r[2] # Nil THEN <<"", r[2]>>
      ELSE IF r[1] = "" THEN <<"", Nil>>
      ELSE <<"tcp://" \o r[1] \o ":2376", Nil>>

RequiresOption(name) == "hetzner driver requires the --" \o name \o " option"

ConfigErrorNoPassword(ip, login, password) ==
  IF ip = "" THEN RequiresOption("hetzner-ip-address")
  ELSE IF login = "" THEN RequiresOption("hetzner-login")
  ELSE Nil

\* The checks of SetConfigFromFlags, in their order.
ConfigError(ip, login, password) ==
  IF ip = "" THEN RequiresOption("hetzner-ip-address")
  ELSE IF login = "" THEN RequiresOption("hetzner-login")
  ELSE IF password = "" THEN RequiresOption("hetzner-password")
  ELSE Nil

\* ------------------------------------------------------------ operations ---

Idle == pc = "idle"

\* SetConfigFromFlags(flags): the three fields are assigned first, checked after.
SetConfigFromFlags ==
  /\ Idle
  /\ \E ip \in IPs, login \in Logins, password \in Passwords :
       /\ IPAddress' = ip
       /\ Login' = login
       /\ Password' = password
       /\ ret' = Result("SetConfigFromFlags", <<ip, login, password>>, "",
                        ConfigError(ip, login, password))
  /\ UNCHANGED <<MachineName, pc, calls, outcomes, publicKey, fingerprint, creates>>

\* An operation that only returns something.
Returns(op, val, err) ==
  /\ Idle
  /\ ret' = Result(op, <<>>, val, err)
  /\ UNCHANGED <<config, pc, calls, outcomes, publicKey, fingerprint, creates>>

CallGetIP == Returns("GetIP", GetIP(IPAddress)[1], GetIP(IPAddress)[2])

GetSSHHostname == Returns("GetSSHHostname", GetIP(IPAddress)[1], GetIP(IPAddress)[2])

CallGetURL == Returns("GetURL", GetURL(IPAddress)[1], GetURL(IPAddress)[2])

GetState == Returns("GetState", "Running", Nil)

PreCreateCheck == Returns("PreCreateCheck", "", Nil)

StartSucceeds == Returns("Start", "", Nil)

Start == Returns("Start", "", ErrNotImplemented)

Stop == Returns("Stop", "", ErrNotImplemented)

Restart == Returns("Restart", "", ErrNotImplemented)

Kill == Returns("Kill", "", ErrNotImplemented)

Remove == Returns("Remove", "", ErrNotImplemented)

\* ---------------------------------------------------------------- Create ---

\* One robotApiCall, as the calling code sees it and as the remote side does.
Call(path, form, outcome) ==
  LET r == robotApiCall(Login, Password, path, outcome)
  IN  [req  |-> [path |-> path, url |-> RobotURL(Login, Password, path), form |-> form],
       resp |-> r[1],
       err  |-> r[2]]

\* resp.Body.Close() on the response of the i-th call.
Close(cs, i) == [cs EXCEPT ![i].resp.closed = TRUE]

\* Create returns err.
CreateReturn(err) ==
  /\ pc' = "idle"
  /\ ret' = Result("Create", <<>>, "", err)

CreateAfterKeyPairUnchecked(fp, err) ==
  /\ fingerprint' = fp
  /\ pc' = "boot"
  /\ UNCHANGED ret

\* fingerprint, err := d.createKeyPair() and the check of err that follows.
CreateAfterKeyPair(fp, err) ==
  /\ fingerprint' = fp
  /\ IF err # Nil
       THEN CreateReturn("unable to create key pair: " \o err)
       ELSE pc' = "boot" /\ UNCHANGED ret

\* Create is called.
Create ==
  /\ Idle
  /\ creates < MaxCreates
  /\ creates' = creates + 1
  /\ pc' = "GenerateSSHKey"
  /\ calls' = <<>>
  /\ outcomes' = NoOutcomes
  /\ publicKey' = ""
  /\ fingerprint' = ""
  /\ UNCHANGED <<config, ret>>

\* createKeyPair: ssh.GenerateSSHKey(d.GetSSHKeyPath()).
GenerateSSHKey ==
  /\ pc = "GenerateSSHKey"
  /\ \E ok \in BOOLEAN :
       IF ok
         THEN /\ outcomes' = [outcomes EXCEPT !.keygen = "ok"]
              /\ pc' = "ReadFile"
              /\ UNCHANGED <<fingerprint, ret>>
         ELSE /\ outcomes' = [outcomes EXCEPT !.keygen = "fail"]
              /\ CreateAfterKeyPair("", ErrKeyGen)
  /\ UNCHANGED <<config, calls, publicKey, creates>>

\* createKeyPair: ioutil.ReadFile(d.GetSSHKeyPath() + ".pub").
ReadFile ==
  /\ pc = "ReadFile"
  /\ \/ \E key \in PubKeys :
          /\ outcomes' = [outcomes EXCEPT !.readfile = "ok"]
          /\ publicKey' = key
          /\ pc' = "importKeyPair"
          /\ UNCHANGED <<fingerprint, ret>>
     \/ /\ outcomes' = [outcomes EXCEPT !.readfile = "fail"]
        /\ CreateAfterKeyPair("", ErrReadFile)
        /\ UNCHANGED publicKey
  /\ UNCHANGED <<config, calls, creates>>

\* importKeyPair: the POST of /key; an error returns before the close of the
\* body is deferred.
importKeyPair ==
  /\ pc = "importKeyPair"
  /\ \E outcome \in Outcomes(Bodies) :
       LET c == Call(KeyPath, KeyForm(MachineName, publicKey), outcome)
       IN  /\ calls' = Append(calls, c)
           /\ IF c.err # Nil
                THEN CreateAfterKeyPair("", c.err)
                ELSE pc' = "ReadAll" /\ UNCHANGED <<fingerprint, ret>>
  /\ UNCHANGED <<config, outcomes, publicKey, creates>>

\* importKeyPair: ioutil.ReadAll(resp.Body); a failure returns through the
\* deferred close.
ReadAll ==
  /\ pc = "ReadAll"
  /\ \E ok \in BOOLEAN :
       IF ok
         THEN /\ outcomes' = [outcomes EXCEPT !.readall = "ok"]
              /\ pc' = "Unmarshal"
              /\ UNCHANGED <<calls, fingerprint, ret>>
         ELSE /\ outcomes' = [outcomes EXCEPT !.readall = "fail"]
              /\ calls' = Close(calls, 1)
              /\ CreateAfterKeyPair("", ErrReadAll)
  /\ UNCHANGED <<config, publicKey, creates>>

\* importKeyPair: json.Unmarshal and the return of the fingerprint with its
\* error, through the deferred close.
UnmarshalKey ==
  /\ pc = "Unmarshal"
  /\ LET u == Unmarshal(calls[1].resp.Body)
     IN  /\ calls' = Close(calls, 1)
         /\ CreateAfterKeyPair(u[1], u[2])
  /\ UNCHANGED <<config, outcomes, publicKey, creates>>

BootErrorIgnored(err) == FALSE

\* if err != nil { return err } after the OS-install request.
BootErrorReturns(err) == err # Nil

\* Create: the POST of /boot/{ip}/linux; an error returns before the close of
\* the body is deferred.
Boot ==
  /\ pc = "boot"
  /\ \E outcome \in Outcomes({EmptyBody}) :
       LET c == Call(BootPath(IPAddress), BootForm(fingerprint), outcome)
       IN  /\ calls' = Append(calls, c)
           /\ IF BootErrorReturns(c.err)
                THEN CreateReturn(c.err)
                ELSE pc' = "reset" /\ UNCHANGED ret
  /\ UNCHANGED <<config, outcomes, publicKey, fingerprint, creates>>

\* Create: the POST of /reset/{ip}, the second defer and the return. The defer
\* statement evaluates resp.Body: without a response it panics, and the
\* deferred close of the install response runs while the panic unwinds.
Reset ==
  /\ pc = "reset"
  /\ \E outcome \in Outcomes({EmptyBody}) :
       LET c  == Call(ResetPath(IPAddress), ResetForm, outcome)
           cs == Append(calls, c)
       IN  IF ~c.resp.present
             THEN /\ calls' = Close(cs, 2)
                  /\ pc' = "panicked"
                  /\ UNCHANGED ret
             ELSE /\ calls' = Close(Close(cs, 3), 2)
                  /\ CreateReturn(c.err)
  /\ UNCHANGED <<config, outcomes, publicKey, fingerprint, creates>>

Next ==
  \/ SetConfigFromFlags
  \/ CallGetIP
  \/ GetSSHHostname
  \/ CallGetURL
  \/ GetState
  \/ PreCreateCheck
  \/ Start
  \/ Stop
  \/ Restart
  \/ Kill
  \/ Remove
  \/ Create
  \/ GenerateSSHKey
  \/ ReadFile
  \/ importKeyPair
  \/ ReadAll
  \/ UnmarshalKey
  \/ Boot
  \/ Reset

Spec == Init /\ [][Next]_vars

TypeOK ==
  /\ MachineName \in MachineNames
  /\ IPAddress \in IPs
  /\ Login \in Logins
  /\ Password \in Passwords
  /\ pc \in {"idle", "GenerateSSHKey", "ReadFile", "importKeyPair", "ReadAll",
             "Unmarshal", "boot", "reset", "panicked"}
  /\ Len(calls) <= 3
  /\ creates \in 0..MaxCreates

\* ---------------------------------------------------------------- claims ---

\* The states of a run of Create: while it runs, and right after it returned.
InCreateRun == pc # "idle" \/ ret.op = "Create"

\* Create has just returned.
CreateReturned == pc = "idle" /\ ret.op = "Create"

\* The i-th call got a response with status 200 or 201.
Answered2xx(i) ==
  /\ calls[i].resp.present
  /\ calls[i].resp.StatusCode \in {StatusOK, StatusCreated}

ExpectedPaths ==
  <<"/key", "/boot/" \o IPAddress \o "/linux", "/reset/" \o IPAddress>>

C1_Order ==
  InCreateRun =>
    /\ Len(calls) <= 3
    /\ \A i \in 1..Len(calls) : calls[i].req.path = ExpectedPaths[i]
    /\ Len(calls) >= 2 =>
         \A p \in calls[2].req.form :
           /\ p[1] = "authorized_key" => p[2] = calls[1].resp.Body.fingerprint
           /\ \E q \in calls[2].req.form : q[1] = "authorized_key"

C1_AppendOnly ==
  pc # "idle" =>
    /\ Len(calls') \in {Len(calls), Len(calls) + 1}
    /\ \A i \in 1..Len(calls) : calls'[i].req = calls[i].req

\* C1: in every run of Create the requests issued are a prefix of POST /key,
\* POST /boot/{ip}/linux, POST /reset/{ip}: a step of the run issues at most
\* one request and rewrites none, and the boot request's authorized_key is the
\* fingerprint in the /key response of the run.
C1_RequestsInOrder == [](C1_Order) /\ [][C1_AppendOnly]_vars

\* A complete run that succeeded, with the fingerprint AA:BB in the boot request.
C1_Witness ==
  /\ CreateReturned
  /\ ret.err = Nil
  /\ Len(calls) = 3
  /\ calls[1].resp.Body.fingerprint = "AA:BB"
  /\ <<"authorized_key", "AA:BB">> \in calls[2].req.form

KeyStepFailed == outcomes.keygen = "fail" \/ outcomes.readfile = "fail"

KeyUploadFailed ==
  /\ Len(calls) >= 1
  /\ \/ ~calls[1].resp.present
     \/ calls[1].resp.StatusCode \notin {StatusOK, StatusCreated}
     \/ ~calls[1].resp.Body.valid

\* C2: a failed key generation or public-key read ends Create with an error
\* before any request; a failed POST /key (transport error, status other than
\* 200/201, body that is not JSON) ends it with an error and neither the boot
\* nor the reset request is issued.
C2_KeyFailureAborts ==
  /\ KeyStepFailed => Len(calls) = 0 /\ pc = "idle"
  /\ KeyUploadFailed => Len(calls) = 1 /\ pc \in {"idle", "ReadAll", "Unmarshal"}
  /\ CreateReturned /\ (KeyStepFailed \/ KeyUploadFailed) => ret.err # Nil

\* Create returned after /key was answered with 500.
C2_Witness ==
  /\ CreateReturned
  /\ Len(calls) = 1
  /\ calls[1].resp.present
  /\ calls[1].resp.StatusCode = 500
  /\ ret.err # Nil

\* The key upload went through and the OS-install request failed.
InstallFailed ==
  /\ Len(calls) >= 2
  /\ \/ ~calls[2].resp.present
     \/ calls[2].resp.StatusCode \notin {StatusOK, StatusCreated}

\* C3 as claimed: after a failed OS-install request Create still issues the
\* reset request and returns the reset request's result.
C3_ResetAfterFailedInstall ==
  CreateReturned /\ InstallFailed => Len(calls) = 3 /\ ret.err = calls[3].err

\* C3 as amended: after a failed OS-install request Create returns at once
\* with the install request's error and issues no reset request.
C3_InstallFailureReturns ==
  InstallFailed =>
    /\ Len(calls) = 2
    /\ pc = "idle"
    /\ ret.op = "Create" => ret.err # Nil /\ ret.err = calls[2].err

\* Create returned after /boot was answered with 500.
C3_Witness ==
  /\ CreateReturned
  /\ Len(calls) = 2
  /\ Answered2xx(1)
  /\ calls[2].resp.present
  /\ calls[2].resp.StatusCode = 500
  /\ ret.err = calls[2].err

AllAccepted ==
  /\ outcomes.keygen = "ok"
  /\ outcomes.readfile = "ok"
  /\ Len(calls) = 3
  /\ \A i \in 1..3 : Answered2xx(i)
  /\ outcomes.readall = "ok"
  /\ calls[1].resp.Body.valid
  /\ calls[1].resp.Body.typeOk

\* C4: Create returns without error exactly when key generation and key read
\* succeeded and the three calls were answered with 200 or 201, the /key body
\* being parseable; when /key and /boot succeed and /reset is answered with
\* another status, Create returns the error of the reset call.
C4_SuccessIffAllAccepted ==
  CreateReturned =>
    /\ ret.err = Nil <=> AllAccepted
    /\ ( /\ Len(calls) = 3
         /\ calls[3].resp.present
         /\ calls[3].resp.StatusCode \notin {StatusOK, StatusCreated} )
       => ret.err # Nil /\ ret.err = calls[3].err

\* Create returned after /key and /boot were accepted and /reset answered 500.
C4_Witness ==
  /\ CreateReturned
  /\ Len(calls) = 3
  /\ Answered2xx(1)
  /\ Answered2xx(2)
  /\ calls[3].resp.present
  /\ calls[3].resp.StatusCode = 500
  /\ ret.err = calls[3].err

\* C5: when Create returns, the body of every response it obtained is closed.
C5_BodiesClosed ==
  CreateReturned => \A i \in 1..Len(calls) : calls[i].resp.present => calls[i].resp.closed

\* C6: whenever a request is issued, the machine's name, ipAddress, login and
\* password are all non-empty.
C6_ConfiguredWhenRequesting ==
  [][Len(calls') > Len(calls) =>
       MachineName # "" /\ IPAddress # "" /\ Login # "" /\ Password # ""]_vars

OptionNames == <<"hetzner-ip-address", "hetzner-login", "hetzner-password">>

\* C7: SetConfigFromFlags fails exactly when one of the three options is
\* empty, its error names an option that is empty, and on success the driver's
\* ipAddress, login and password are the supplied values.
C7_ConfigureChecksOptions ==
  ret.op = "SetConfigFromFlags" =>
    /\ ret.err # Nil <=> \E i \in 1..3 : ret.args[i] = ""
    /\ ret.err # Nil => \E i \in 1..3 : ret.err = RequiresOption(OptionNames[i])
    /\ \A i \in 1..3 : ret.err = RequiresOption(OptionNames[i]) => ret.args[i] = ""
    /\ ret.err = Nil => <<IPAddress, Login, Password>> = ret.args

\* SetConfigFromFlags failed on the password alone.
C7_Witness ==
  /\ ret.op = "SetConfigFromFlags"
  /\ ret.args[1] # ""
  /\ ret.args[2] # ""
  /\ ret.args[3] = ""
  /\ ret.err = RequiresOption("hetzner-password")

\* C8: GetURL returns "" and no error on an empty IP, and tcp://{ip}:2376 and
\* no error otherwise.
C8_GetURLEmptyOnEmptyIP ==
  ret.op = "GetURL" =>
    /\ ret.err = Nil
    /\ ret.val = IF IPAddress = "" THEN "" ELSE "tcp://" \o IPAddress \o ":2376"

StubOps == {"Start", "Stop", "Restart", "Kill", "Remove"}

C9_StubStep ==
  pc = "idle" /\ pc' = "idle" /\ ret'.op \in StubOps =>
    /\ ret'.err = ErrNotImplemented
    /\ calls' = calls
    /\ UNCHANGED <<IPAddress, Login, Password>>

\* C9: Start, Stop, Restart, Kill and Remove can be called whenever no other
\* operation runs, return the not-implemented error, issue no request and
\* leave ipAddress, login and password as they were.
C9_StubsNotImplemented ==
  /\ [](ret.op \in StubOps => ret.err = ErrNotImplemented)
  /\ [](pc = "idle" =>
          ENABLED Start /\ ENABLED Stop /\ ENABLED Restart /\ ENABLED Kill /\ ENABLED Remove)
  /\ [][C9_StubStep]_vars

\* Start returned on a configured driver after a complete run of Create.
C9_Witness ==
  /\ ret.op = "Start"
  /\ ret.err = ErrNotImplemented
  /\ creates >= 1
  /\ Len(calls) = 3
  /\ IPAddress # ""

\* C10: every run of Create ends by returning; none ends in a panic.
C10_CreateTotal == pc # "panicked"

====
